---- MODULE Spec2Model ----
(***************************************************************************)
(* Job orchestration of camera_server_flask.py: the status merge           *)
(* (_read_job_status), the runner registry (_register_runner), the         *)
(* background task (_run_claude_background), the instant-run path and the  *)
(* QR watcher (_start_qr_watcher), with the job directory and the shared   *)
(* working directory as the only shared state.                             *)
(*                                                                         *)
(* JSON objects are functions from key strings to values; a key the        *)
(* object does not hold is outside the function's DOMAIN.  Text whose      *)
(* characters matter (uuids, display names, file names) is a sequence of   *)
(* one-character strings; phases, modes and messages are plain strings.    *)
(***************************************************************************)
EXTENDS Integers, Sequences, FiniteSets, TLC

VARIABLES
    files,      \* the job's documents and the shared working directory's
    registry,   \* runners_registry.json: mode -> (display name -> file name)
    store,      \* script files of the working directory: file name -> content
    polled,     \* the document the last /job-status call returned
    prevPhase,  \* the phase the /job-status call before the last returned
    pollCount,  \* /job-status calls so far (capped)
    lastHint,   \* the mode argument of the last /job-status call
    regWrites,  \* _save_registry calls made by /job-status so far (capped)
    copies,     \* shutil.copyfile calls made by /job-status so far (capped)
    lastReg,    \* the last direct _register_runner call: what it found and did
    entry,      \* the endpoint that began the job: "none", "submit", "instant"
    jobMode,    \* the mode of the request that began the job
    toolOK,     \* whether shutil.which("claude") finds the generation tool
    req,        \* position of the request handler (validate / instant_run)
    bg,         \* position of the _run_claude_background thread
    child,      \* the child process: "none", "running", "exited"
    scr,        \* what the generated script has reported so far
    w,          \* the QR watcher thread: position and locals
    pollers     \* concurrent /job-status requests: position and locals of each

vars == << files, registry, store, polled, prevPhase, pollCount, lastHint, regWrites,
           copies, lastReg, entry, jobMode, toolOK, req, bg, child, scr, w, pollers >>

lifeVars == << entry, jobMode, toolOK, req, bg, child, scr, w >>

-----------------------------------------------------------------------------
(* Bounds *)

MaxPolls == 2

MaxRegWrites == 3

\* /job-status calls each concurrent request thread makes
MaxConcCalls == 2

-----------------------------------------------------------------------------
(* dict helpers *)

EmptyMap == [k \in {} |-> TRUE]

\* dict.update(b) on a
Update(a, b) == [k \in (DOMAIN a) \cup (DOMAIN b) |-> IF k \in DOMAIN b THEN b[k] ELSE a[k]]

Put(a, k, v) == Update(a, k :> v)

Has(d, k) == k \in DOMAIN d

\* str.strip() on a sequence of characters; " " is the whitespace character
RECURSIVE LStrip(_)
LStrip(s) == IF s # << >> /\ Head(s) = " " THEN LStrip(Tail(s)) ELSE s

RECURSIVE RStrip(_)
RStrip(s) == IF s # << >> /\ s[Len(s)] = " " THEN RStrip(SubSeq(s, 1, Len(s) - 1)) ELSE s

Strip(s) == RStrip(LStrip(s))

-----------------------------------------------------------------------------
(* files *)

Absent == [st |-> "absent"]

\* a file opened with mode "w" whose json.dump has not completed: it exists,
\* and json.load on it raises
Partial(name, mt) == [st |-> "partial", name |-> name, mt |-> mt]

Doc(name, d, mt) == [st |-> "doc", name |-> name, d |-> d, mt |-> mt]

\* os.path.exists of the file called name
Exists(f, name) == f.st # "absent" /\ f.name = name

\* os.path.getsize: an unfinished write is shorter than the finished document
Size(f) == IF f.st = "doc" THEN 2 ELSE IF f.st = "partial" THEN 1 ELSE 0

_canonical_result_file(mode) ==
    CASE mode = "qr" -> "uuid.json"
      [] mode = "gesture" -> "gesture_output.json"
      [] mode = "object" -> "object_output.json"
      [] OTHER -> "output.json"

\* a JSON list as the value of "mode": truthy and unhashable
ListMode == "[list]"

Hashable(mode) == mode # ListMode

-----------------------------------------------------------------------------
(* _filter_result_fields *)

AllowedKeys(mode) ==
    CASE mode = "qr" -> {"expected_uuid", "uuid", "verified", "timestamp"}
      [] mode = "gesture" -> {"confidence", "gesture", "verified", "timestamp"}
      [] mode = "object" -> {"confidence", "object", "verified", "timestamp"}
      [] OTHER -> {}

_filter_result_fields(mode, data) ==
    [k \in (DOMAIN data) \cap AllowedKeys(mode) |-> data[k]]

-----------------------------------------------------------------------------
(* registry helpers *)

Lower(c) == IF c = "A" THEN "a" ELSE c

IsAlnum(c) == c \in {"a", "A", "b"}

RECURSIVE SkipNonAlnum(_)
SkipNonAlnum(s) == IF s # << >> /\ ~IsAlnum(Head(s)) THEN SkipNonAlnum(Tail(s)) ELSE s

\* re.sub(r"[^A-Za-z0-9]+", "_", s)
RECURSIVE SubNonAlnum(_)
SubNonAlnum(s) ==
    IF s = << >> THEN << >>
    ELSE IF IsAlnum(Head(s)) THEN << Head(s) >> \o SubNonAlnum(Tail(s))
    ELSE << "_" >> \o SubNonAlnum(SkipNonAlnum(s))

\* str.strip("_")
RECURSIVE StripUnderscore(_)
StripUnderscore(s) ==
    IF s # << >> /\ Head(s) = "_" THEN StripUnderscore(Tail(s))
    ELSE IF s # << >> /\ s[Len(s)] = "_" THEN StripUnderscore(SubSeq(s, 1, Len(s) - 1))
    ELSE s

\* re.sub(r"_+", "_", s)
RECURSIVE CollapseUnderscore(_)
CollapseUnderscore(s) ==
    IF Len(s) < 2 THEN s
    ELSE IF s[1] = "_" /\ s[2] = "_" THEN CollapseUnderscore(Tail(s))
    ELSE << Head(s) >> \o CollapseUnderscore(Tail(s))

_slugify(name) ==
    LET lowered == [i \in 1..Len(Strip(name)) |-> Lower(Strip(name)[i])]
        s == CollapseUnderscore(StripUnderscore(SubNonAlnum(lowered)))
    IN IF s = << >> THEN << "i", "t", "e", "m" >> ELSE s

\* source_script of _register_runner when the status document names no script
NoScript == << >>

EmptyRegistry == [gesture |-> EmptyMap, object |-> EmptyMap]

TargetOf(mode, display_name) ==
    _slugify(display_name) \o << IF mode = "gesture" THEN "_gesture.py" ELSE "_object.py" >>

\* _register_runner naming the target file after the source script instead of
\* the display name
RegisterRunnerBySource(reg, st, mode, display_name, source_script) ==
    IF mode \notin {"gesture", "object"} \/ display_name = << >>
    THEN [target |-> << >>, reg |-> reg, store |-> st, saved |-> FALSE, copied |-> FALSE]
    ELSE LET target == (IF source_script = NoScript THEN _slugify(display_name)
                        ELSE source_script)
                       \o << IF mode = "gesture" THEN "_gesture.py" ELSE "_object.py" >>
             copy == source_script # NoScript /\ Has(st, source_script)
         IN [target |-> target,
             reg |-> [reg EXCEPT ![mode] = Put(@, display_name, target)],
             store |-> IF copy THEN Put(st, target, st[source_script]) ELSE st,
             saved |-> TRUE,
             copied |-> copy]

\* _register_runner on the registry document reg and the script files st:
\* what it returns (target, << >> for None), the registry and the script
\* files it leaves, and whether it saved the registry and copied a file
_register_runner(reg, st, mode, display_name, source_script) ==
    IF mode \notin {"gesture", "object"} \/ display_name = << >>
    THEN [target |-> << >>, reg |-> reg, store |-> st, saved |-> FALSE, copied |-> FALSE]
    ELSE LET target == TargetOf(mode, display_name)
             copy == source_script # NoScript /\ Has(st, source_script)
                     /\ source_script # target
         IN [target |-> target,
             reg |-> [reg EXCEPT ![mode] = Put(@, display_name, target)],
             store |-> IF copy THEN Put(st, target, st[source_script]) ELSE st,
             saved |-> TRUE,
             copied |-> copy]

NoRegisterCall == [called |-> FALSE, existed |-> FALSE, before |-> "none", after |-> "none"]

-----------------------------------------------------------------------------
(* _read_job_status *)

MapData(m) == [isMap |-> TRUE, m |-> m]

\* a "data" value that is no JSON object (a string, a number, a list)
RawData == [isMap |-> FALSE, m |-> EmptyMap]

\* the document before any file is read; updated_at is the wall clock and
\* is left out
Seed == [job_id |-> "job", phase |-> "queued"]

\* the update keeping the keys the earlier sources set
OverlayKeep(s, f) == IF f.st = "doc" THEN Update(f.d, s) ELSE s

\* status.update(json.load(f) or {}) inside try/except
Overlay(s, f) == IF f.st = "doc" THEN Update(s, f.d) ELSE s

\* status.get('mode') or request.args.get('mode') or 'qr'
EffMode(s, hint) ==
    IF Has(s, "mode") /\ s["mode"] # "" THEN s["mode"]
    ELSE IF hint # "" THEN hint ELSE "qr"

\* the uuid of reference_uuid.json, job directory first; '' on any failure
RefUuid(f) == IF f.st = "doc" /\ Has(f.d, "uuid") THEN Strip(f.d["uuid"]) ELSE << >>

Expected(fs) ==
    IF fs.refJob.st # "absent" THEN RefUuid(fs.refJob)
    ELSE IF fs.refCwd.st # "absent" THEN RefUuid(fs.refCwd)
    ELSE << >>

\* datetime.utcfromtimestamp(mtime).isoformat() + "Z"
MtimeIso(mt) == << mt >>

\* lines 272-285: merge the canonical result file of the effective mode
MergeResult(s, fs, hint) ==
    LET mode == EffMode(s, hint)
        name == _canonical_result_file(mode)
        chosen == IF Exists(fs.resJob, name) THEN fs.resJob
                  ELSE IF Exists(fs.resCwd, name) THEN fs.resCwd ELSE Absent
    IN IF ~Hashable(mode) \/ chosen.st # "doc" THEN s
       ELSE IF Has(s, "data") /\ ~s["data"].isMap THEN s
       ELSE Put(s, "data",
                MapData(Update(IF Has(s, "data") THEN s["data"].m ELSE EmptyMap,
                               _filter_result_fields(mode, chosen.d))))

\* the fallback acting only when expected_uuid and verified are both missing
QrFallbackBoth(s, fs, hint) ==
    IF ~(EffMode(s, hint) = "qr" /\ Has(s, "data") /\ s["data"].isMap) THEN s
    ELSE LET data == s["data"].m
             has_uuid == Has(data, "uuid") /\ data["uuid"] # << >>
             needs_expected == ~Has(data, "expected_uuid")
             needs_verified == ~Has(data, "verified")
             expected == Expected(fs)
             d1 == Put(data, "expected_uuid", expected)
             d2 == Put(d1, "verified", expected # << >> /\ expected = data["uuid"])
             d3 == IF ~Has(d2, "timestamp") /\ Exists(fs.resJob, "uuid.json")
                   THEN Put(d2, "timestamp", MtimeIso(fs.resJob.mt))
                   ELSE d2
         IN IF has_uuid /\ needs_expected /\ needs_verified
            THEN Put(s, "data", MapData(_filter_result_fields("qr", d3)))
            ELSE s

\* lines 287-328: compute expected_uuid and verified when they are missing
QrFallback(s, fs, hint) ==
    IF ~(EffMode(s, hint) = "qr" /\ Has(s, "data") /\ s["data"].isMap) THEN s
    ELSE LET data == s["data"].m
             has_uuid == Has(data, "uuid") /\ data["uuid"] # << >>
             needs_expected == ~Has(data, "expected_uuid")
             needs_verified == ~Has(data, "verified")
             expected == Expected(fs)
             d1 == IF needs_expected THEN Put(data, "expected_uuid", expected) ELSE data
             d2 == IF needs_verified
                   THEN Put(d1, "verified", expected # << >> /\ expected = data["uuid"])
                   ELSE d1
             d3 == IF ~Has(d2, "timestamp") /\ Exists(fs.resJob, "uuid.json")
                   THEN Put(d2, "timestamp", MtimeIso(fs.resJob.mt))
                   ELSE d2
         IN IF has_uuid /\ (needs_expected \/ needs_verified)
            THEN Put(s, "data", MapData(_filter_result_fields("qr", d3)))
            ELSE s

\* lines 330-336: filter data to the effective mode's allow-list
Sanitize(s, hint) ==
    IF Has(s, "data") /\ s["data"].isMap /\ Hashable(EffMode(s, hint))
    THEN Put(s, "data", MapData(_filter_result_fields(EffMode(s, hint), s["data"].m)))
    ELSE s

\* the lookup finding nothing, whatever the registry holds
AlreadyNever(reg, mode, display_name) == FALSE

\* the registry lookup that guards the auto-registration (lines 347-349)
Already(reg, mode, display_name) == Has(reg[mode], display_name)

\* lines 337-355: register a newly verified gesture/object runner
AutoRegister(s, reg, st) ==
    LET none == [status |-> s, reg |-> reg, store |-> st, saved |-> FALSE, copied |-> FALSE]
        isRaw == Has(s, "data") /\ ~s["data"].isMap
        data == IF Has(s, "data") THEN s["data"].m ELSE EmptyMap
        verified == (Has(data, "verified") /\ data["verified"])
                    \/ (s["phase"] = "done" /\ data # EmptyMap)
        mode == IF Has(s, "mode") THEN s["mode"] ELSE ""
        source_script == IF Has(s, "script") THEN s["script"] ELSE NoScript
    IN IF isRaw \/ ~verified \/ mode \notin {"gesture", "object"} THEN none
       ELSE IF ~Has(data, mode) \/ data[mode] = << >> THEN none
       ELSE IF Already(reg, mode, data[mode]) THEN none
       ELSE LET r == _register_runner(reg, st, mode, data[mode], source_script)
            IN [status |-> Put(s, "registry",
                               Put(IF Has(s, "registry") THEN s["registry"] ELSE EmptyMap,
                                   mode, r.target)),
                reg |-> r.reg, store |-> r.store, saved |-> r.saved, copied |-> r.copied]

\* _read_job_status with the files fs, the request's mode argument hint,
\* the registry document reg and the script files st
_read_job_status(fs, hint, reg, st) ==
    LET s2 == Overlay(Overlay(Seed, fs.status), fs.script)
        s3 == MergeResult(s2, fs, hint)
        s4 == QrFallback(s3, fs, hint)
        s5 == Sanitize(s4, hint)
    IN AutoRegister(s5, reg, st)

-----------------------------------------------------------------------------
(* GET /job-status *)

Modes == {"qr", "gesture", "object"}

\* the mode argument of the request: none, or one of the modes
Hints == {""} \cup Modes

Bump(n, max) == IF n < max THEN n + 1 ELSE n

\* job_status: one call of _read_job_status, with its registry side effect
Poll(hint) ==
    /\ pollCount < MaxPolls
    /\ LET r == _read_job_status(files, hint, registry, store)
       IN /\ polled' = r.status
          /\ registry' = r.reg
          /\ store' = r.store
          /\ regWrites' = IF r.saved THEN Bump(regWrites, MaxRegWrites) ELSE regWrites
          /\ copies' = IF r.copied THEN Bump(copies, MaxRegWrites) ELSE copies
    /\ prevPhase' = IF pollCount = 0 THEN "none" ELSE polled["phase"]
    /\ pollCount' = pollCount + 1
    /\ lastHint' = hint
    /\ UNCHANGED << files, lastReg, lifeVars, pollers >>

-----------------------------------------------------------------------------
(* The merge on its own: a job directory holding any combination of the   *)
(* documents the orchestrator, the watcher and a script can leave, polled  *)
(* repeatedly while no document changes.                                   *)

UuidA == << "a" >>

UuidB == << "b" >>

\* the uuid "a" followed by a blank
UuidAPadded == << "a", " " >>

RunnerA == << "runner_a.py" >>

RunnerB == << "runner_b.py" >>

NameThumb == << "A", " ", "b" >>

\* the payload without the result file's time
WatcherPayloadNoTime(detected, expected, mt) ==
    [uuid |-> detected, expected_uuid |-> expected,
     verified |-> (expected # << >> /\ detected # << >> /\ expected = detected)]

\* the payload the QR watcher writes for a detected and an expected uuid
WatcherPayload(detected, expected, mt) ==
    [uuid |-> detected, expected_uuid |-> expected,
     verified |-> (expected # << >> /\ detected # << >> /\ expected = detected),
     timestamp |-> MtimeIso(mt)]

\* status.json as the orchestrator and the watcher write it
StatusDocs ==
    {[phase |-> "generating"]}
    \cup {[phase |-> "running", mode |-> m, script |-> RunnerA] : m \in Modes}
    \cup {[phase |-> "error", message |-> "Failed to start script"]}
    \cup {[phase |-> "done", mode |-> "qr",
           data |-> MapData(WatcherPayload(UuidA, e, "new"))] : e \in {UuidA, UuidB, << >>}}

\* script_status.json: the hook contract's documents, and documents of a
\* script that does not keep to it
ScriptDocs ==
    {[phase |-> "ready"],
     [phase |-> "detected", uuid |-> UuidA],
     [phase |-> "done", verified |-> TRUE],
     [phase |-> "done", data |-> MapData([extra |-> << "x" >>, verified |-> TRUE])],
     [phase |-> "done", data |-> RawData],
     [mode |-> ListMode, data |-> MapData([extra |-> << "x" >>])]}

\* the canonical result documents a script writes
ResultDocs(mode) ==
    IF mode = "qr"
    THEN {[uuid |-> UuidA], [uuid |-> UuidB], [uuid |-> UuidAPadded], [uuid |-> << >>],
          [uuid |-> UuidA, verified |-> TRUE],
          [uuid |-> UuidA, extra |-> << "x" >>]}
    ELSE {(mode :> NameThumb) @@ [verified |-> TRUE, confidence |-> << "9" >>],
          (mode :> NameThumb) @@ [extra |-> << "x" >>],
          [verified |-> FALSE]}

ResultFiles(mt) ==
    {Absent, Partial("uuid.json", mt)}
    \cup UNION {{Doc(_canonical_result_file(m), d, mt) : d \in ResultDocs(m)} : m \in Modes}

RefFiles == {Absent, Partial("reference_uuid.json", "old")}
            \cup {Doc("reference_uuid.json", [uuid |-> u], "old") : u \in {UuidA, UuidB}}

FileOf(name, docs) == {Absent, Partial(name, "new")} \cup {Doc(name, d, "new") : d \in docs}

InitStore == (RunnerA :> "A") @@ (RunnerB :> "B")

\* the locals of _watch before the thread is started
WatcherIdle == [pc |-> "idle", published |-> FALSE, cand |-> "none", size1 |-> 0,
                mtime |-> "none", doc |-> EmptyMap, last |-> "none"]

NoLife ==
    /\ entry = "none" /\ jobMode = "qr" /\ toolOK = TRUE /\ req = "idle"
    /\ bg = "idle" /\ child = "none" /\ scr = "none"
    /\ w = WatcherIdle

\* a request thread that is in no /job-status call
PollerIdle == [pc |-> "idle", calls |-> 0, mode |-> "", name |-> << >>, src |-> NoScript,
               reg |-> EmptyRegistry]

Pollers == {1, 2}

NoPolls ==
    /\ pollers = [p \in Pollers |-> PollerIdle]
    /\ polled = EmptyMap /\ prevPhase = "none" /\ pollCount = 0 /\ lastHint = ""
    /\ regWrites = 0 /\ copies = 0
    /\ lastReg = NoRegisterCall

InitMerge ==
    /\ files \in [status : FileOf("status.json", StatusDocs),
                  script : FileOf("script_status.json", ScriptDocs),
                  resJob : ResultFiles("new"),
                  resCwd : {Absent, Doc("uuid.json", [uuid |-> UuidB], "old")},
                  refJob : RefFiles,
                  refCwd : {Absent}]
    /\ registry \in {EmptyRegistry,
                     [EmptyRegistry EXCEPT !.gesture = NameThumb :> TargetOf("gesture", NameThumb)]}
    /\ store = InitStore
    /\ NoPolls
    /\ NoLife

NextMerge == \E hint \in Hints : Poll(hint)

SpecMerge == InitMerge /\ [][NextMerge]_vars

-----------------------------------------------------------------------------
(* Properties of the merge *)

Polled == pollCount > 0

\* the keys of the data map the last call returned (none when it returned no map)
PolledKeys == IF Has(polled, "data") /\ polled["data"].isMap THEN DOMAIN polled["data"].m ELSE {}

\* the job's mode as the last call saw it: the documents' mode, else the
\* request's, else qr
PolledMode == IF Has(polled, "mode") /\ polled["mode"] \in Modes THEN polled["mode"]
              ELSE IF lastHint # "" THEN lastHint ELSE "qr"

\* C3: the data map pollStatus returns holds no key outside the allow-list of
\* the job's mode, whatever keys and value shapes the documents hold.
C3_AllowList == Polled => PolledKeys \subseteq AllowedKeys(PolledMode)

NoJobDocument ==
    /\ files.status = Absent /\ files.script = Absent
    /\ files.resJob = Absent /\ files.resCwd = Absent

\* C4: polled before any document exists, a job reports phase queued and an
\* empty data map.
C4_QueuedAndEmpty ==
    (Polled /\ NoJobDocument) =>
        /\ polled["phase"] = "queued"
        /\ Has(polled, "data") /\ polled["data"] = MapData(EmptyMap)

PolledData == IF Has(polled, "data") THEN polled["data"] ELSE MapData(EmptyMap)

\* C6: once a poll has returned a terminal phase and no document changes, every
\* further poll returns the same data map and writes nothing to the registry.
C6_PollIdempotent ==
    [][(Polled /\ polled["phase"] \in {"done", "error"} /\ pollCount' = pollCount + 1
        /\ lastHint' = lastHint /\ files' = files)
       => (PolledData' = PolledData /\ regWrites' = regWrites /\ registry' = registry)]_vars

\* a second poll of a gesture job that the first poll registered
C6_Witness ==
    /\ pollCount >= 2 /\ polled["phase"] = "done" /\ regWrites = 1
    /\ "gesture" \in PolledKeys /\ Has(registry.gesture, polled["data"].m["gesture"])

-----------------------------------------------------------------------------
(* The registry on its own: _register_runner called with any mode, display *)
(* name and source script, in any order.                                    *)

\* display names: "A b" and "a_b" share a slug; the empty name is refused
RegNames == {NameThumb, << "a", "_", "b" >>, << "a" >>, << >>}

\* source scripts: none, and two runner files of different content
RegSources == {NoScript, RunnerA, RunnerB}

\* the content of the script file stored for (mode, name); "none" without one
StoredScript(st, mode, name) ==
    IF Has(st, TargetOf(mode, name)) THEN st[TargetOf(mode, name)] ELSE "none"

Register(mode, name, src) ==
    /\ LET r == _register_runner(registry, store, mode, name, src)
       IN /\ registry' = r.reg
          /\ store' = r.store
          /\ lastReg' = [called |-> TRUE,
                         existed |-> mode \in DOMAIN registry /\ Has(registry[mode], name),
                         before |-> StoredScript(store, mode, name),
                         after |-> StoredScript(r.store, mode, name)]
    /\ UNCHANGED << files, polled, prevPhase, pollCount, lastHint, regWrites, copies,
                    lifeVars, pollers >>

InitReg ==
    /\ files = [status |-> Absent, script |-> Absent, resJob |-> Absent,
                resCwd |-> Absent, refJob |-> Absent, refCwd |-> Absent]
    /\ registry = EmptyRegistry
    /\ store = InitStore
    /\ NoPolls
    /\ NoLife

NextReg == \E mode \in Modes, name \in RegNames, src \in RegSources : Register(mode, name, src)

SpecReg == InitReg /\ [][NextReg]_vars

\* C7: registering a (mode, display name) that is registered already, with
\* whatever source script, leaves the name mapped to the file name it had.
C7_FirstFilenameKept ==
    [][\A mode \in {"gesture", "object"} : \A name \in DOMAIN registry[mode] :
          Has(registry'[mode], name) /\ registry'[mode][name] = registry[mode][name]]_vars

\* a second registration of a name, from a source script with other content
\* than the first one's
C7_Witness ==
    /\ lastReg.called /\ lastReg.existed
    /\ lastReg.before # "none" /\ lastReg.after # lastReg.before

\* C8: a register call for a (mode, display name) the registry already holds
\* changes neither the registry document nor the content of the script file
\* stored under that name.
C8_SecondRegisterNoOp ==
    lastReg.existed => (lastReg.before = "none" \/ lastReg.after = lastReg.before)

-----------------------------------------------------------------------------
(* The job lifecycle: one job begun by POST /validate (submit) or by POST   *)
(* /instant-run with action validate, its background thread, its child      *)
(* process, the QR watcher and the polling clients, interleaved freely.     *)

pollVars == << polled, prevPhase, pollCount, lastHint, regWrites, copies, lastReg, pollers >>

\* the modification time a write gets now: "new" once the watcher has taken
\* its start_ts, "job" before that; files left by earlier runs carry "old"
Now == IF w.pc # "idle" THEN "new" ELSE "job"

\* _write_json, first half: open(path, "w") has truncated the file
Truncated(name) == Partial(name, Now)

\* _write_json, second half: json.dump has written payload
Written(name, payload) == Doc(name, payload, Now)

ScriptPath == RunnerA

\* the reference_uuid.json the generation step of an earlier /generate left
LeftReference == Doc("reference_uuid.json", [uuid |-> UuidA], "old")

\* a uuid.json an earlier run left in the working directory
LeftResult == Doc("uuid.json", [uuid |-> UuidB], "old")

Init ==
    /\ files \in [status : {Absent}, script : {Absent}, resJob : {Absent},
                  resCwd : {Absent, LeftResult},
                  refJob : {Absent},
                  refCwd : {Absent, LeftReference}]
    /\ registry = EmptyRegistry
    /\ store \in {InitStore, RunnerB :> "B"}
    /\ NoPolls
    /\ entry = "none" /\ jobMode = "qr" /\ toolOK \in BOOLEAN /\ req = "idle"
    /\ bg = "idle" /\ child = "none" /\ scr = "none"
    /\ w = WatcherIdle

\* validate, lines 668-717: the job directory, the queued document and the
\* background thread
Submit(mode) ==
    /\ entry = "none"
    /\ entry' = "submit" /\ jobMode' = mode /\ req' = "accepted"
    /\ files' = [files EXCEPT !.status = Written("status.json", [phase |-> "queued"])]
    /\ bg' = "start"
    /\ UNCHANGED << registry, store, pollVars, toolOK, child, scr, w >>

\* _run_claude_background line 362, the file opened for writing
BgGeneratingOpen ==
    /\ bg = "start"
    /\ files' = [files EXCEPT !.status = Truncated("status.json")]
    /\ bg' = "generating"
    /\ UNCHANGED << registry, store, pollVars, entry, jobMode, toolOK, req, child, scr, w >>

\* line 362, the document written
BgGeneratingDump ==
    /\ bg = "generating"
    /\ files' = [files EXCEPT !.status = Written("status.json", [phase |-> "generating"])]
    /\ bg' = "tool"
    /\ UNCHANGED << registry, store, pollVars, entry, jobMode, toolOK, req, child, scr, w >>

\* run_claude, lines 739-777: without the executable it returns the "Error:"
\* text; with it the tool writes the script file
RunTool ==
    /\ bg = "tool"
    /\ store' = IF toolOK THEN Put(store, ScriptPath, "A") ELSE store
    /\ bg' = "launch"
    /\ UNCHANGED << files, registry, pollVars, entry, jobMode, toolOK, req, child, scr, w >>

\* the running document written without the child having been started
LaunchOKNoChild ==
    /\ bg = "launch"
    /\ files' = [files EXCEPT !.status = Truncated("status.json")]
    /\ bg' = "running"
    /\ UNCHANGED << registry, store, pollVars, entry, jobMode, toolOK, req, child, scr, w >>

\* lines 372-379: Popen starts the interpreter on script_path whatever
\* run_claude returned
LaunchOK ==
    /\ bg = "launch"
    /\ child' = "running"
    /\ files' = [files EXCEPT !.status = Truncated("status.json")]
    /\ bg' = "running"
    /\ UNCHANGED << registry, store, pollVars, entry, jobMode, toolOK, req, scr, w >>

\* line 380, the document written
BgRunningDump ==
    /\ bg = "running"
    /\ files' = [files EXCEPT !.status =
                    Written("status.json",
                            [phase |-> "running", script |-> ScriptPath, mode |-> jobMode])]
    /\ bg' = "done"
    /\ UNCHANGED << registry, store, pollVars, entry, jobMode, toolOK, req, child, scr, w >>

\* lines 381-382: open or Popen raised
LaunchFails ==
    /\ bg = "launch"
    /\ files' = [files EXCEPT !.status = Truncated("status.json")]
    /\ bg' = "error"
    /\ UNCHANGED << registry, store, pollVars, entry, jobMode, toolOK, req, child, scr, w >>

BgErrorDump ==
    /\ bg = "error"
    /\ files' = [files EXCEPT !.status =
                    Written("status.json",
                            [phase |-> "error", message |-> "Failed to start script"])]
    /\ bg' = "done"
    /\ UNCHANGED << registry, store, pollVars, entry, jobMode, toolOK, req, child, scr, w >>

\* the ready document in upper case, as the script prints it
ReadyDocUpper == [phase |-> "READY"]

\* lines 524 and 564: the script_status.json instant_run writes itself
ReadyDoc == [phase |-> "ready"]

\* instant_run with action validate, lines 509-578: the running and ready
\* documents, for qr the reference copy and the watcher, then the child
InstantRunQr ==
    /\ entry = "none"
    /\ entry' = "instant" /\ jobMode' = "qr"
    /\ files' = [files EXCEPT
                    !.status = Written("status.json",
                                       [phase |-> "running", script |-> ScriptPath, mode |-> "qr"]),
                    !.script = Written("script_status.json", ReadyDoc),
                    !.refJob = IF files.refCwd.st = "doc"
                               THEN Written("reference_uuid.json", files.refCwd.d)
                               ELSE Absent]
    /\ w' = [WatcherIdle EXCEPT !.pc = "loop"]
    /\ \/ child' = "running" /\ req' = "accepted"
       \/ child' = "none" /\ req' = "failed"
    /\ UNCHANGED << registry, store, pollVars, toolOK, bg, scr >>

InstantRunLive(mode) ==
    /\ entry = "none" /\ mode \in {"gesture", "object"}
    /\ entry' = "instant" /\ jobMode' = mode
    /\ \/ /\ Has(store, ScriptPath)
          /\ child' = "running" /\ req' = "accepted"
          /\ files' = [files EXCEPT
                          !.status = Written("status.json",
                                             [phase |-> "running", script |-> ScriptPath,
                                              mode |-> mode]),
                          !.script = Written("script_status.json", ReadyDoc)]
       \/ /\ child' = "none" /\ req' = "failed"
          /\ files' = [files EXCEPT
                          !.status = Written("status.json",
                                             [phase |-> "error",
                                              message |-> "Failed to start runner"]),
                          !.script = Written("script_status.json", ReadyDoc)]
    /\ UNCHANGED << registry, store, pollVars, toolOK, bg, scr, w >>

\* the reference a QR generation run writes into the job directory (the
\* prompt of generate, line 426)
PlaceReference ==
    /\ entry = "submit" /\ jobMode = "qr" /\ files.refJob = Absent
    /\ files' = [files EXCEPT !.refJob = Written("reference_uuid.json", [uuid |-> UuidA])]
    /\ UNCHANGED << registry, store, pollVars, lifeVars >>

-----------------------------------------------------------------------------
(* The child process: the generated script, which the orchestrator does not *)
(* control.  It keeps the hook contract's phase order and may write its     *)
(* result file at any time, into the job directory or the working directory *)

ScriptLive == child = "running" /\ Has(store, ScriptPath)

NextReport(phase) ==
    \/ scr = "none" /\ phase = "ready"
    \/ scr = "ready" /\ phase = "detected"
    \/ scr \in {"ready", "detected"} /\ phase = "done"
    \/ scr \in {"none", "ready", "detected"} /\ phase = "error"

\* the script_status.json documents of the hook contract (lines 684-693)
ReportDoc(phase) ==
    CASE phase = "detected" /\ jobMode = "qr" -> [phase |-> "detected", uuid |-> UuidA]
      [] phase = "detected" /\ jobMode # "qr" -> (jobMode :> NameThumb) @@ [phase |-> "detected"]
      [] phase = "done" -> [phase |-> "done", verified |-> TRUE]
      [] phase = "error" -> [phase |-> "error", message |-> "camera"]
      [] OTHER -> [phase |-> phase]

ScriptReport(phase) ==
    /\ ScriptLive /\ NextReport(phase)
    /\ files' = [files EXCEPT !.script = Written("script_status.json", ReportDoc(phase))]
    /\ scr' = phase
    /\ UNCHANGED << registry, store, pollVars, entry, jobMode, toolOK, req, bg, child, w >>

\* the result documents of the job's mode; a qr script may add a verdict of
\* its own
LifeResultDocs ==
    IF jobMode = "qr" THEN {[uuid |-> UuidA], [uuid |-> UuidB, verified |-> TRUE]}
    ELSE {(jobMode :> NameThumb) @@ [verified |-> TRUE, confidence |-> << "9" >>]}

ResultAt(where) == IF where = "job" THEN files.resJob ELSE files.resCwd

SetResult(where, f) ==
    IF where = "job" THEN [files EXCEPT !.resJob = f] ELSE [files EXCEPT !.resCwd = f]

\* the script writes each of its result files once
NotYetWritten(f) == IF f.st = "absent" THEN TRUE ELSE f.mt = "old"

ScriptResultOpen(where) ==
    /\ ScriptLive
    /\ NotYetWritten(ResultAt(where))
    /\ files' = SetResult(where, Truncated(_canonical_result_file(jobMode)))
    /\ UNCHANGED << registry, store, pollVars, lifeVars >>

ScriptResultDump(where) ==
    /\ ScriptLive
    /\ ResultAt(where).st = "partial"
    /\ \E d \in LifeResultDocs :
          files' = SetResult(where, Written(_canonical_result_file(jobMode), d))
    /\ UNCHANGED << registry, store, pollVars, lifeVars >>

ChildExit ==
    /\ child = "running"
    /\ child' = "exited"
    /\ UNCHANGED << files, registry, store, pollVars, entry, jobMode, toolOK, req, bg, scr, w >>

-----------------------------------------------------------------------------
(* _start_qr_watcher._watch *)

lifeButW == << entry, jobMode, toolOK, req, bg, child, scr >>

\* the phase script_status.json reports; "" when it cannot be read
ScriptPhase == IF files.script.st = "doc" /\ Has(files.script.d, "phase")
               THEN files.script.d["phase"] ELSE ""

\* line 165: the job directory's uuid.json, else the working directory's
Candidate ==
    IF Exists(files.resJob, "uuid.json") THEN "job"
    ELSE IF Exists(files.resCwd, "uuid.json") THEN "cwd" ELSE "none"

\* a file whose modification time accepts it as written after start_ts
StaleNever(mt) == FALSE

\* line 169: mtime < start_ts
Stale(mt) == mt # "new"

\* the loop's head stopping for a script that reported done, not for one that
\* reported error
WatchLookDoneOnly ==
    /\ w.pc = "loop"
    /\ IF ScriptPhase = "done"
       THEN w' = [w EXCEPT !.pc = "stopped"]
       ELSE LET pub == w.published \/ ScriptPhase = "detected"
            IN IF Candidate = "none"
               THEN w' = [w EXCEPT !.published = pub, !.last = "none"]
               ELSE IF Stale(ResultAt(Candidate).mt)
               THEN w' = [w EXCEPT !.published = pub, !.last = "stale"]
               ELSE w' = [w EXCEPT !.published = pub, !.pc = "stable",
                                   !.cand = Candidate,
                                   !.mtime = ResultAt(Candidate).mt,
                                   !.size1 = Size(ResultAt(Candidate))]
    /\ UNCHANGED << files, registry, store, pollVars, lifeButW >>

\* lines 152-173, one turn of the loop up to the first size read: stop when
\* the script finalized, skip a missing or stale candidate
WatchLook ==
    /\ w.pc = "loop"
    /\ IF ScriptPhase \in {"done", "error"}
       THEN w' = [w EXCEPT !.pc = "stopped"]
       ELSE LET pub == w.published \/ ScriptPhase = "detected"
            IN IF Candidate = "none"
               THEN w' = [w EXCEPT !.published = pub, !.last = "none"]
               ELSE IF Stale(ResultAt(Candidate).mt)
               THEN w' = [w EXCEPT !.published = pub, !.last = "stale"]
               ELSE w' = [w EXCEPT !.published = pub, !.pc = "stable",
                                   !.cand = Candidate,
                                   !.mtime = ResultAt(Candidate).mt,
                                   !.size1 = Size(ResultAt(Candidate))]
    /\ UNCHANGED << files, registry, store, pollVars, lifeButW >>

\* lines 175-206: the second size read, the result and the reference read
\* and compared, script_status.json read again
WatchRead ==
    /\ w.pc = "stable"
    /\ LET f == ResultAt(w.cand)
       IN IF Size(f) # w.size1
          THEN w' = [w EXCEPT !.pc = "loop", !.last = "growing"]
          ELSE IF f.st # "doc"
          THEN w' = [w EXCEPT !.pc = "loop", !.last = "unreadable"]
          ELSE LET detected == IF Has(f.d, "uuid") THEN Strip(f.d["uuid"]) ELSE << >>
                   pub == w.published \/ ScriptPhase = "done"
               IN w' = [w EXCEPT !.published = pub,
                                 !.pc = IF pub THEN "finalize" ELSE "detected",
                                 !.last = "read",
                                 !.doc = WatcherPayload(detected, Expected(files), w.mtime)]
    /\ UNCHANGED << files, registry, store, pollVars, lifeButW >>

\* line 209, the file opened for writing
WatchDetectedOpen ==
    /\ w.pc = "detected"
    /\ files' = [files EXCEPT !.status = Truncated("status.json")]
    /\ w' = [w EXCEPT !.pc = "detected_w"]
    /\ UNCHANGED << registry, store, pollVars, lifeButW >>

\* lines 209-210, the document written
WatchDetectedDump ==
    /\ w.pc = "detected_w"
    /\ files' = [files EXCEPT !.status =
                    Written("status.json", [phase |-> "detected", mode |-> "qr"])]
    /\ w' = [w EXCEPT !.pc = "finalize", !.published = TRUE]
    /\ UNCHANGED << registry, store, pollVars, lifeButW >>

\* the document lines 212-229 build from the current status.json
DoneDoc(cur, payload) ==
    Update(cur, [phase |-> "done", mode |-> "qr",
                 data |-> MapData(Update(IF Has(cur, "data") THEN cur["data"].m ELSE EmptyMap,
                                         _filter_result_fields("qr", payload)))])

\* lines 212-230: status.json read, the done document built, the file opened
WatchDoneOpen ==
    /\ w.pc = "finalize"
    /\ LET cur == IF files.status.st = "doc" THEN files.status.d ELSE EmptyMap
       IN IF Has(cur, "data") /\ ~cur["data"].isMap
          THEN /\ w' = [w EXCEPT !.pc = "loop", !.last = "unreadable"]
               /\ UNCHANGED files
          ELSE /\ w' = [w EXCEPT !.pc = "done_w", !.doc = DoneDoc(cur, w.doc)]
               /\ files' = [files EXCEPT !.status = Truncated("status.json")]
    /\ UNCHANGED << registry, store, pollVars, lifeButW >>

\* lines 230-231, the document written; the thread ends
WatchDoneDump ==
    /\ w.pc = "done_w"
    /\ files' = [files EXCEPT !.status = Written("status.json", w.doc)]
    /\ w' = [w EXCEPT !.pc = "finished", !.last = "done"]
    /\ UNCHANGED << registry, store, pollVars, lifeButW >>

\* lines 152 and 235-245: the deadline has passed at the loop's head;
\* status.json is read and, unless it reports done or error or cannot be
\* read, opened
WatchTimeout ==
    /\ w.pc = "loop"
    /\ LET cur == IF files.status.st = "doc" THEN files.status.d ELSE EmptyMap
       IN IF files.status.st = "partial"
             \/ (Has(cur, "phase") /\ cur["phase"] \in {"done", "error"})
          THEN /\ w' = [w EXCEPT !.pc = "finished", !.last = "timeout"]
               /\ UNCHANGED files
          ELSE /\ w' = [w EXCEPT !.pc = "timeout_w", !.last = "timeout",
                                 !.doc = Update(cur, [phase |-> "error", mode |-> "qr",
                                                      message |-> "Timeout waiting for uuid.json"])]
               /\ files' = [files EXCEPT !.status = Truncated("status.json")]
    /\ UNCHANGED << registry, store, pollVars, lifeButW >>

\* line 245, the document written
WatchTimeoutDump ==
    /\ w.pc = "timeout_w"
    /\ files' = [files EXCEPT !.status = Written("status.json", w.doc)]
    /\ w' = [w EXCEPT !.pc = "finished"]
    /\ UNCHANGED << registry, store, pollVars, lifeButW >>

-----------------------------------------------------------------------------

\* a job begun by POST /validate
Next ==
    \/ \E mode \in Modes : Submit(mode)
    \/ BgGeneratingOpen \/ BgGeneratingDump \/ RunTool
    \/ LaunchOK \/ BgRunningDump \/ LaunchFails \/ BgErrorDump
    \/ PlaceReference
    \/ \E phase \in {"ready", "detected", "done", "error"} : ScriptReport(phase)
    \/ \E where \in {"job", "cwd"} : ScriptResultOpen(where)
    \/ \E where \in {"job", "cwd"} : ScriptResultDump(where)
    \/ ChildExit
    \/ Poll("")

Spec == Init /\ [][Next]_vars

\* a job begun by POST /instant-run
NextInstant ==
    \/ InstantRunQr
    \/ \E mode \in Modes : InstantRunLive(mode)
    \/ \E phase \in {"ready", "detected", "done", "error"} : ScriptReport(phase)
    \/ \E where \in {"job", "cwd"} : ScriptResultOpen(where)
    \/ \E where \in {"job", "cwd"} : ScriptResultDump(where)
    \/ ChildExit
    \/ WatchLook \/ WatchRead \/ WatchDetectedOpen \/ WatchDetectedDump
    \/ WatchDoneOpen \/ WatchDoneDump \/ WatchTimeout \/ WatchTimeoutDump
    \/ Poll("")

\* the instant-run path never calls run_claude
InitInstant == Init /\ toolOK

SpecInstant == InitInstant /\ [][NextInstant]_vars

-----------------------------------------------------------------------------
(* Properties of the lifecycle *)

\* what a /job-status call without a mode argument returns in this state
Merged == _read_job_status(files, "", registry, store).status

StatusPhase == IF files.status.st = "doc" /\ Has(files.status.d, "phase")
               THEN files.status.d["phase"] ELSE ""

\* the uuid the job directory's result file carries; << >> without one
ResultUuid == IF files.resJob.st = "doc" /\ Has(files.resJob.d, "uuid")
              THEN Strip(files.resJob.d["uuid"]) ELSE << >>

\* C1: for a QR job whose result file carries a uuid, the final merged status
\* has data.verified true exactly if that uuid equals the reference file's
\* uuid, whatever else the script wrote.
C1_VerdictIsOrchestrators ==
    (entry = "instant" /\ jobMode = "qr" /\ ResultUuid # << >>
     /\ files.resCwd.st = "absent" /\ Polled /\ polled = Merged /\ polled["phase"] = "done")
    => /\ "verified" \in PolledKeys
       /\ polled["data"].m["verified"] = (Expected(files) = ResultUuid)

\* the place of a phase in queued, generating, running, detected, done; the
\* script's ready counts as running, error comes last
PhaseRank(phase) ==
    CASE phase = "queued" -> 0
      [] phase = "generating" -> 1
      [] phase \in {"running", "ready"} -> 2
      [] phase = "detected" -> 3
      [] phase = "done" -> 4
      [] OTHER -> 5

\* C2: no poll of a job returns a phase that comes before the phase an
\* earlier poll of the job returned.
C2_PhaseNeverGoesBack == pollCount >= 2 => PhaseRank(polled["phase"]) >= PhaseRank(prevPhase)

\* C5: while every uuid.json the watcher can find was last modified before the
\* watcher started, the watcher has written neither detected nor done.
C5_StaleResultNotUsed ==
    (entry = "instant" /\ jobMode = "qr"
     /\ ~(Exists(files.resJob, "uuid.json") /\ files.resJob.mt = "new")
     /\ ~(Exists(files.resCwd, "uuid.json") /\ files.resCwd.mt = "new"))
    => /\ StatusPhase \notin {"detected", "done"}
       /\ w.pc \notin {"detected", "detected_w", "finalize", "done_w"}
       /\ w.last \notin {"read", "done"}

\* the watcher has found the uuid.json an earlier run left, and skipped it
C5_Witness ==
    /\ entry = "instant" /\ jobMode = "qr" /\ w.last = "stale"
    /\ files.resJob = Absent /\ files.resCwd = LeftResult

\* C9: without the generation tool, the background task of a submitted job
\* launches no child process and never records phase running.
C9_NoLaunchWithoutTool ==
    (entry = "submit" /\ ~toolOK) => (child = "none" /\ StatusPhase # "running")

\* C10: a submitted QR job has a watcher, so once a reference and a matching
\* fresh result are in the job directory, the script has reported nothing and
\* every thread has finished, the job is done with verified true.
C10_SubmittedQrIsFinalized ==
    (entry = "submit" /\ jobMode = "qr" /\ bg = "done" /\ child = "exited" /\ scr = "none"
     /\ files.refJob.st = "doc" /\ files.resJob.st = "doc"
     /\ files.resJob.d = [uuid |-> UuidA] /\ Expected(files) = UuidA)
    => /\ w.pc # "idle"
       /\ Merged["phase"] = "done"
       /\ Has(Merged, "data") /\ Merged["data"].m["verified"]

-----------------------------------------------------------------------------
(* Errors, typing and registration *)

\* C11: once status.json of a job the client was given holds phase error with
\* a message, a poll returns phase error and that message.
C11_ErrorIsReported ==
    (entry # "none" /\ req = "accepted" /\ StatusPhase = "error"
     /\ Has(files.status.d, "message") /\ Polled /\ polled = Merged)
    => /\ polled["phase"] = "error"
       /\ Has(polled, "message") /\ polled["message"] = files.status.d["message"]

\* C12: every poll returns a document holding a phase, a mode and a data map.
C12_AlwaysTyped ==
    Polled => /\ Has(polled, "phase") /\ Has(polled, "mode")
              /\ Has(polled, "data") /\ polled["data"].isMap

\* the last poll returned data.verified true
PolledVerified == "verified" \in PolledKeys /\ polled["data"].m["verified"] = TRUE

\* C13: a poll adds a registry entry only when the phase it returns is
\* terminal and the data it returns has verified true.
C13_RegisteredOnlyWhenVerified ==
    [][(pollCount' = pollCount + 1 /\ registry' # registry)
       => (polled'["phase"] \in {"done", "error"} /\ PolledVerified')]_vars

-----------------------------------------------------------------------------
(* Concurrent polls: the development server handles each request on a      *)
(* thread of its own, and nothing serializes the registry file.  A         *)
(* /job-status call that registers reads the registry at line 347, reads   *)
(* it again in _register_runner (line 72) and writes it at line 86.        *)

\* lines 338-346: the (mode, display name, source script) the merged status s
\* asks to register; mode "" when it asks for none
Wanted(s) ==
    LET none == [mode |-> "", name |-> << >>, src |-> NoScript]
        isRaw == Has(s, "data") /\ ~s["data"].isMap
        data == IF Has(s, "data") THEN s["data"].m ELSE EmptyMap
        verified == (Has(data, "verified") /\ data["verified"])
                    \/ (s["phase"] = "done" /\ data # EmptyMap)
        mode == IF Has(s, "mode") THEN s["mode"] ELSE ""
    IN IF isRaw \/ ~verified \/ mode \notin {"gesture", "object"} THEN none
       ELSE IF ~Has(data, mode) \/ data[mode] = << >> THEN none
       ELSE [mode |-> mode, name |-> data[mode],
             src |-> IF Has(s, "script") THEN s["script"] ELSE NoScript]

\* the documents of a finished job of a mode, a display name and a runner script
ConcJob(mode, name, src) ==
    [status |-> Doc("status.json", [phase |-> "running", mode |-> mode, script |-> src], "job"),
     script |-> Doc("script_status.json", [phase |-> "done"], "job"),
     resJob |-> Doc(_canonical_result_file(mode), (mode :> name) @@ [verified |-> TRUE], "job"),
     resCwd |-> Absent, refJob |-> Absent, refCwd |-> Absent]

\* the jobs the request threads poll: three verified ones and one still running
ConcJobs ==
    {ConcJob("gesture", NameThumb, RunnerA), ConcJob("gesture", << "a" >>, RunnerB),
     ConcJob("object", << "b" >>, RunnerA),
     [ConcJob("gesture", << "b" >>, RunnerA) EXCEPT !.script = Absent, !.resJob = Absent]}

\* _read_job_status up to the registry lookup of lines 347-349
ConcBegin(p, fs) ==
    /\ pollers[p].pc = "idle" /\ pollers[p].calls < MaxConcCalls
    /\ LET s == Sanitize(QrFallback(MergeResult(Overlay(Overlay(Seed, fs.status), fs.script),
                                                fs, ""), fs, ""), "")
           want == Wanted(s)
       IN IF want.mode = "" \/ Already(registry, want.mode, want.name)
          THEN pollers' = [pollers EXCEPT ![p].calls = @ + 1]
          ELSE pollers' = [pollers EXCEPT ![p].pc = "register", ![p].mode = want.mode,
                                          ![p].name = want.name, ![p].src = want.src]
    /\ UNCHANGED << files, registry, store, polled, prevPhase, pollCount, lastHint,
                    regWrites, copies, lastReg, lifeVars >>

\* _register_runner lines 72-84: the registry read, the script copied, the
\* entry set in the thread's own copy of the registry
ConcLoad(p) ==
    /\ pollers[p].pc = "register"
    /\ LET r == _register_runner(registry, store, pollers[p].mode, pollers[p].name,
                                 pollers[p].src)
       IN /\ pollers' = [pollers EXCEPT ![p].pc = "save", ![p].reg = r.reg]
          /\ store' = r.store
    /\ UNCHANGED << files, registry, polled, prevPhase, pollCount, lastHint,
                    regWrites, copies, lastReg, lifeVars >>

\* _register_runner line 86: _save_registry writes the thread's copy
ConcSave(p) ==
    /\ pollers[p].pc = "save"
    /\ registry' = pollers[p].reg
    /\ pollers' = [pollers EXCEPT ![p] = [PollerIdle EXCEPT !.calls = pollers[p].calls + 1]]
    /\ UNCHANGED << files, store, polled, prevPhase, pollCount, lastHint,
                    regWrites, copies, lastReg, lifeVars >>

InitConc ==
    /\ files = [status |-> Absent, script |-> Absent, resJob |-> Absent,
                resCwd |-> Absent, refJob |-> Absent, refCwd |-> Absent]
    /\ registry \in {EmptyRegistry,
                     [EmptyRegistry EXCEPT !.object = << "a" >> :> TargetOf("object", << "a" >>)]}
    /\ store = InitStore
    /\ NoPolls
    /\ NoLife

NextConc ==
    \E p \in Pollers :
        \/ \E fs \in ConcJobs : ConcBegin(p, fs)
        \/ ConcLoad(p)
        \/ ConcSave(p)

SpecConc == InitConc /\ [][NextConc]_vars

\* C14: under concurrent polls no step takes an entry out of the registry or
\* maps a registered name to another file.
C14_NoEntryLost ==
    [][\A mode \in {"gesture", "object"} : \A name \in DOMAIN registry[mode] :
          Has(registry'[mode], name) /\ registry'[mode][name] = registry[mode][name]]_vars

-----------------------------------------------------------------------------
(* The gesture scenario *)

\* the result file a poll of the job reads: the job directory's, else the
\* working directory's
PickedResult ==
    IF files.resJob.st # "absent" THEN files.resJob ELSE files.resCwd

\* the script of a submitted gesture job has written its result file, with the
\* gesture name and verified true, and reported done
GestureFinished ==
    /\ entry = "submit" /\ jobMode = "gesture" /\ scr = "done"
    /\ PickedResult.st = "doc" /\ PickedResult.name = "gesture_output.json"
    /\ Has(PickedResult.d, "gesture") /\ Has(PickedResult.d, "verified")
    /\ PickedResult.d["verified"] = TRUE

\* C15: the poll that follows returns phase done and the gesture name, and
\* leaves the name registered under mode gesture.
C15_GestureScenario ==
    [][(GestureFinished /\ pollCount' = pollCount + 1)
       => /\ polled'["phase"] = "done"
          /\ Has(polled', "data") /\ Has(polled'["data"].m, "gesture")
          /\ polled'["data"].m["gesture"] = PickedResult.d["gesture"]
          /\ Has(registry'.gesture, PickedResult.d["gesture"])]_vars

-----------------------------------------------------------------------------
(* Precedence of the merge's sources *)

\* lines 255-271: the seed overlaid with status.json and script_status.json
Reported == Overlay(Overlay(Seed, files.status), files.script)

\* the data map the two status documents report; empty when they report none
ReportedData ==
    IF Has(Reported, "data") /\ Reported["data"].isMap THEN Reported["data"].m ELSE EmptyMap

\* C16: a data key the status document or the script status document reports
\* keeps its value: the result file's value for that key does not replace it.
C16_ReportedDataWins ==
    Polled => \A k \in (DOMAIN ReportedData) \cap PolledKeys :
                  polled["data"].m[k] = ReportedData[k]

\* the data map status.json holds; empty when it holds none
OrchestratorData ==
    IF files.status.st = "doc" /\ Has(files.status.d, "data") /\ files.status.d["data"].isMap
    THEN files.status.d["data"].m ELSE EmptyMap

\* C17: for a job whose documents name one of the modes, every key of
\* status.json and of script_status.json is in the merged document, and every
\* allow-listed key of the data map status.json holds is in the merged data map.
C17_NoKeyDeleted ==
    (Polled /\ Has(polled, "mode") /\ polled["mode"] \in Modes)
           => /\ files.status.st = "doc" => DOMAIN files.status.d \subseteq DOMAIN polled
              /\ files.script.st = "doc" => DOMAIN files.script.d \subseteq DOMAIN polled
              /\ (DOMAIN OrchestratorData) \cap AllowedKeys(PolledMode) \subseteq PolledKeys

\* C18: the phase a poll returns is script_status.json's if it reports one,
\* else status.json's if it reports one, else queued, whatever the result file
\* and the reference file hold.
C18_PhaseFromDocuments ==
    Polled => polled["phase"] = IF ScriptPhase # "" THEN ScriptPhase
                                ELSE IF StatusPhase # "" THEN StatusPhase ELSE "queued"

\* a poll with both documents reporting a phase, a result file and a reference
C18_Witness ==
    /\ Polled /\ ScriptPhase = "ready" /\ StatusPhase = "running" /\ polled["phase"] = "ready"
    /\ files.resJob.st = "doc" /\ files.refJob.st = "doc"

-----------------------------------------------------------------------------
(* The phases a client sees *)

\* the phases of the job lifecycle
LifecyclePhases == {"queued", "generating", "running", "detected", "done", "error"}

-----------------------------------------------------------------------------
(* The QR fallback *)

\* the effective mode of the last poll is qr
PolledQr == IF Has(polled, "mode") THEN polled["mode"] = "qr" ELSE lastHint \in {"", "qr"}

\* C20: when the effective mode is qr and the data a poll returns holds a
\* uuid key, it also holds expected_uuid and verified.
C20_QrVerifiable ==
    (Polled /\ PolledQr /\ "uuid" \in PolledKeys)
    => {"expected_uuid", "verified"} \subseteq PolledKeys

\* C20 as amended: when the effective mode is qr and the data a poll returns
\* holds a non-empty uuid, it also holds expected_uuid and verified.
C20_QrVerifiableNonEmpty ==
    (Polled /\ PolledQr /\ "uuid" \in PolledKeys /\ polled["data"].m["uuid"] # << >>)
    => {"expected_uuid", "verified"} \subseteq PolledKeys

\* a poll of a job whose documents report no data and whose uuid.json holds
\* the reference's uuid and no verdict
C20_Witness ==
    /\ Polled /\ PolledQr /\ ~Has(Reported, "data")
    /\ files.resJob.st = "doc" /\ files.resJob.d = [uuid |-> UuidA]
    /\ Expected(files) = UuidA
    /\ "verified" \in PolledKeys /\ polled["data"].m["verified"] = TRUE

-----------------------------------------------------------------------------
(* The watcher's timeout, launch failures and stale results *)

Finalized == {"done", "error"}

\* C21: when the watcher times out while status.json or script_status.json
\* reports done or error, it writes nothing.
C21_TimeoutLeavesFinalization ==
    [][(w.pc = "loop" /\ w'.pc \in {"timeout_w", "finished"}
        /\ (StatusPhase \in Finalized \/ ScriptPhase \in Finalized))
       => (files' = files /\ w'.pc = "finished")]_vars

\* C22: after a failed launch of the child process the job's status.json
\* holds phase error and a message.
C22_LaunchFailureRecorded ==
    (entry = "instant" /\ req = "failed")
    => (StatusPhase = "error" /\ Has(files.status.d, "message"))

\* C23: while the only result file is one an earlier run left in the working
\* directory, a poll of the job returns none of its fields.
C23_StaleResultNotSurfaced ==
    (entry # "none" /\ jobMode = "qr" /\ Polled /\ polled = Merged
     /\ files.resJob = Absent /\ files.resCwd = LeftResult)
    => "uuid" \notin PolledKeys

-----------------------------------------------------------------------------
(* The order of the background task's writes *)

\* C24: status.json of a submitted job holds queued when validate returns,
\* generating while the generation tool runs, and after that running or
\* error, running only with the child process launched; each write is under
\* way only at its place in that order.
C24_BackgroundWriteOrder ==
    entry = "submit" =>
        /\ bg = "start" => StatusPhase = "queued"
        /\ bg \in {"generating", "running", "error"} => files.status.st = "partial"
        /\ bg \in {"tool", "launch"} => StatusPhase = "generating"
        /\ bg = "running" => child # "none"
        /\ bg = "done" => StatusPhase \in {"running", "error"}
        /\ StatusPhase = "running" => child # "none"
        /\ StatusPhase = "error" => child = "none"

\* the background task has recorded running for a launched child
C24_Witness ==
    /\ entry = "submit" /\ bg = "done" /\ StatusPhase = "running" /\ child = "running"

-----------------------------------------------------------------------------
(* The watcher's finalization *)

\* the keys of the data map status.json holds
StatusDataKeys == DOMAIN OrchestratorData

\* C25: the watcher writes done only with detected published before, by its
\* own write to status.json or by the script's report; the done document
\* holds uuid, expected_uuid, verified and timestamp in data, and the watcher
\* has stopped.
C25_DetectedThenDone ==
    /\ w.pc = "finalize" => (StatusPhase = "detected" \/ scr \in {"detected", "done", "error"})
    /\ w.pc \in {"finalize", "done_w"} => w.published
    /\ w.last = "done" =>
          /\ w.pc = "finished" /\ StatusPhase = "done"
          /\ {"uuid", "expected_uuid", "verified", "timestamp"} \subseteq StatusDataKeys

\* the watcher has finalized a job whose script reported neither detected nor done
C25_Witness ==
    /\ w.last = "done" /\ scr \in {"none", "ready"} /\ StatusPhase = "done"
    /\ "timestamp" \in StatusDataKeys

\* C26: a turn of the watcher's loop that finds script_status.json reporting
\* done or error stops the watcher, and a stopped watcher stays stopped and
\* leaves status.json as it is.
C26_StopsWhenScriptFinalized ==
    [][/\ (w.pc = "loop" /\ ScriptPhase \in Finalized /\ w' # w /\ w'.last # "timeout")
          => (w'.pc = "stopped" /\ files' = files)
       /\ w.pc = "stopped" => (w' = w /\ files'.status = files.status)]_vars

\* the watcher has stopped for a script that reported error, and the job goes on
C26_Witness ==
    /\ w.pc = "stopped" /\ scr = "error" /\ StatusPhase = "running" /\ child = "exited"

-----------------------------------------------------------------------------
(* What a client sees of the watcher's verdict *)

\* C27: once the watcher has written done to status.json of an instant-run QR
\* job whose script has reported nothing, a poll returns phase done.
C27_DoneIsReported ==
    (entry = "instant" /\ jobMode = "qr" /\ scr = "none" /\ w.last = "done"
     /\ Polled /\ polled = Merged)
    => polled["phase"] = "done"

\* C28: in the merged status of a QR job, verified true comes with a non-empty
\* expected_uuid equal to uuid.
C28_VerifiedMeansEqual ==
    (entry = "instant" /\ jobMode = "qr" /\ Polled /\ polled = Merged /\ PolledVerified)
    => /\ {"uuid", "expected_uuid"} \subseteq PolledKeys
       /\ polled["data"].m["expected_uuid"] # << >>
       /\ polled["data"].m["expected_uuid"] = polled["data"].m["uuid"]

\* C29: no two display names of a mode are registered with the same script file.
C29_NamesDoNotShareFile ==
    \A mode \in {"gesture", "object"} : \A n1, n2 \in DOMAIN registry[mode] :
        n1 # n2 => registry[mode][n1] # registry[mode][n2]

-----------------------------------------------------------------------------
(* Two QR jobs at once: while this job's script is still looking for a     *)
(* code, the script of another job writes its uuid.json into the working    *)
(* directory both jobs share (the fallback path of line 147).               *)

\* the result document of the other job's script
OtherResult == [uuid |-> UuidB]

\* the other job's script opens the working directory's uuid.json for writing
OtherResultOpen ==
    /\ entry = "instant" /\ jobMode = "qr"
    /\ NotYetWritten(files.resCwd)
    /\ files' = [files EXCEPT !.resCwd = Truncated("uuid.json")]
    /\ UNCHANGED << registry, store, pollVars, lifeVars >>

\* the other job's script has written its document
OtherResultDump ==
    /\ entry = "instant" /\ jobMode = "qr"
    /\ files.resCwd.st = "partial"
    /\ files' = [files EXCEPT !.resCwd = Written("uuid.json", OtherResult)]
    /\ UNCHANGED << registry, store, pollVars, lifeVars >>

NextTwo ==
    \/ InstantRunQr
    \/ OtherResultOpen \/ OtherResultDump
    \/ WatchLook \/ WatchRead \/ WatchDetectedOpen \/ WatchDetectedDump
    \/ WatchDoneOpen \/ WatchDoneDump \/ WatchTimeout \/ WatchTimeoutDump
    \/ ChildExit
    \/ Poll("")

SpecTwo == InitInstant /\ [][NextTwo]_vars

\* C30: while this job's script has written no result, its watcher writes
\* neither detected nor done, whatever another job's script writes into the
\* working directory.
C30_OnlyOwnResultFinalizes ==
    (entry = "instant" /\ jobMode = "qr" /\ files.resJob = Absent)
    => /\ StatusPhase \notin {"detected", "done"}
       /\ w.last \notin {"read", "done"}

====
